---------------------------- MODULE Spec2Model ----------------------------
(***************************************************************************)
(* CHIP-8 emulators of the repository.                                     *)
(*                                                                         *)
(*   Chip8Emulator (src/emuchip8.py): memory, registers, program counter,  *)
(*   call stack, timers and display, stepped by emulate_cycle.             *)
(*   Chip8Core (src/emuaiv0x.x..x.nes.py): the 60 Hz timer of              *)
(*   _update_timers, driven by the wall clock.                             *)
(*                                                                         *)
(* A Python exception that leaves a method is recorded in `raised`; the    *)
(* fields keep whatever the method had written before the exception.       *)
(***************************************************************************)
EXTENDS Integers, Sequences, FiniteSets

VARIABLES
    memory,             \* Chip8Emulator.memory: 4096 bytes
    registers,          \* Chip8Emulator.registers: V0..VF
    index_register,     \* Chip8Emulator.index_register
    pc,                 \* Chip8Emulator.pc
    stack,              \* Chip8Emulator.stack
    delay_timer,        \* Chip8Emulator.delay_timer
    sound_timer,        \* Chip8Emulator.sound_timer
    display,            \* Chip8Emulator.display: 32 rows of 64 pixels
    opcode,             \* the word fetched by the last emulate_cycle
    raised,             \* the exception that left the last call, if any
    phase,              \* "constructed" until a program is in memory
    steps,              \* emulate_cycle calls made so far
    keys,               \* Chip8Emulator.keys: 16 key flags
    rom_data,           \* the bytes the last load_rom read from its file
    loads,              \* load_rom calls made so far
    now,                \* wall clock, in clock units
    core_delay_timer,   \* Chip8Core.delay_timer
    core_sound_timer,   \* Chip8Core.sound_timer
    last_timer_update,  \* Chip8Core.last_timer_update
    calls,              \* _update_timers calls made so far
    last_call,          \* clock of the last _update_timers call
    max_gap,            \* longest time between consecutive calls so far
    timer_start,        \* the delay timers at the start of the observation
    emulation_running,  \* Chip8EmulatorUI.emulation_running
    last_cycle_time,    \* Chip8EmulatorUI.last_cycle_time
    loop_current_time,  \* _emulation_loop's current_time
    loop_pc,            \* where the emulation thread is in _emulation_loop
    ui_pc,              \* where the Tk main thread is
    seen_running,       \* what the loop's last test of emulation_running read
    error_pending       \* a cycle of the loop raised and no start followed

emuVars == <<memory, registers, index_register, pc, stack, delay_timer,
             sound_timer, display, opcode, raised, phase, steps, keys,
             rom_data, loads>>
coreVars == <<core_delay_timer, core_sound_timer, last_timer_update, calls,
              last_call, max_gap>>
uiVars == <<emulation_running, last_cycle_time, loop_current_time, loop_pc, ui_pc,
            seen_running, error_pending>>
vars == <<emuVars, coreVars, now, timer_start, uiVars>>

---------------------------------------------------------------------------
(* Program constants *)

MemSize == 4096
NumRegisters == 16
DisplayWidth == 64
DisplayHeight == 32
RomBase == 512
SpriteWidth == 8

(* Bounds of the model *)

MaxRomWords == 3       \* words of a generated program
MaxSteps == 5          \* emulate_cycle calls per run
MaxTime == 8           \* clock units the wall clock runs for
MaxTimer == 3          \* largest timer value an observation starts with
MaxCalls == 8          \* _update_timers calls per run
TimerPeriod == 2       \* clock units in 1/60 s
MaxUnitWords == 2      \* words of a program given to a preset emulator
MaxStack == 2          \* return addresses a preset stack holds
MaxKeyWords == 2       \* words of a program run under key events
MaxLoads == 3          \* load_rom calls on one emulator
CyclePeriod == 1       \* clock units in 1/emulation_speed s

---------------------------------------------------------------------------
(* Exceptions *)

NoError == "none"
IndexErrorRead == "IndexError: list index out of range"
IndexErrorWrite == "IndexError: list assignment index out of range"
IndexErrorPop == "IndexError: pop from empty list"

NoOpcode == -1

---------------------------------------------------------------------------
(* Bit fields of a 16-bit word and of a byte *)

HighNibble(w) == w \div 4096            \* (w & 0xF000) >> 12
Addr(w) == w % 4096                     \* w & 0x0FFF
NibbleX(w) == (w \div 256) % 16         \* (w & 0x0F00) >> 8
NibbleY(w) == (w \div 16) % 16          \* (w & 0x00F0) >> 4
NibbleN(w) == w % 16                    \* w & 0x000F
LowByte(w) == w % 256                   \* w & 0x00FF

\* sprite_byte & (0x80 >> col), as 0 or 1
SpriteBit(byte, col) == (byte \div (2 ^ (7 - col))) % 2

BlankDisplay == [y \in 0..(DisplayHeight - 1) |-> [x \in 0..(DisplayWidth - 1) |-> 0]]

---------------------------------------------------------------------------
(* Chip8Emulator.execute_opcode, the draw loops *)

\* DrawPixel with `|= 1` in place of `^= 1`
DrawPixelOr(d, byte, col, x, y, row) ==
    IF SpriteBit(byte, col) = 1
    THEN LET pixel_x == (x + col) % DisplayWidth
             pixel_y == (y + row) % DisplayHeight
         IN [display |-> [d.display EXCEPT ![pixel_y][pixel_x] = 1],
             vf |-> IF d.display[pixel_y][pixel_x] = 1 THEN 1 ELSE d.vf]
    ELSE d

\* the body of `for col in range(8)` for one column
DrawPixel(d, byte, col, x, y, row) ==
    IF SpriteBit(byte, col) = 1
    THEN LET pixel_x == (x + col) % DisplayWidth
             pixel_y == (y + row) % DisplayHeight
         IN [display |-> [d.display EXCEPT ![pixel_y][pixel_x] = 1 - @],
             vf |-> IF d.display[pixel_y][pixel_x] = 1 THEN 1 ELSE d.vf]
    ELSE d

RECURSIVE DrawRow(_, _, _, _, _, _)
DrawRow(d, byte, col, x, y, row) ==
    IF col = SpriteWidth THEN d
    ELSE DrawRow(DrawPixel(d, byte, col, x, y, row), byte, col + 1, x, y, row)

\* `for row in range(height)`: the read of memory[index_register + row]
\* raises past the end of memory, after the earlier rows were drawn
RECURSIVE DrawRows(_, _, _, _, _, _, _)
DrawRows(d, mem, I, row, height, x, y) ==
    IF row = height THEN [display |-> d.display, vf |-> d.vf, raised |-> NoError]
    ELSE IF I + row >= MemSize
         THEN [display |-> d.display, vf |-> d.vf, raised |-> IndexErrorRead]
         ELSE DrawRows(DrawRow(d, mem[I + row], 0, x, y, row),
                       mem, I, row + 1, height, x, y)

\* DrawSprite without `self.registers[0xF] = 0`
DrawSpriteKeepsVF(s, op) ==
    LET x == s.registers[NibbleX(op)]
        y == s.registers[NibbleY(op)]
        height == NibbleN(op)
        r == DrawRows([display |-> s.display, vf |-> s.registers[15]], s.memory,
                      s.index_register, 0, height, x, y)
    IN [s EXCEPT !.display = r.display,
                 !.registers = [s.registers EXCEPT ![15] = r.vf],
                 !.raised = r.raised]

\* 0xDXYN: VF := 0, then the rows of the sprite
DrawSprite(s, op) ==
    LET x == s.registers[NibbleX(op)]
        y == s.registers[NibbleY(op)]
        height == NibbleN(op)
        r == DrawRows([display |-> s.display, vf |-> 0], s.memory,
                      s.index_register, 0, height, x, y)
    IN [s EXCEPT !.display = r.display,
                 !.registers = [s.registers EXCEPT ![15] = r.vf],
                 !.raised = r.raised]

\* ReturnFromSubroutine with `self.stack.pop(0)`
ReturnPopsOldest(s) ==
    IF s.stack = <<>>
    THEN [s EXCEPT !.raised = IndexErrorPop]
    ELSE [s EXCEPT !.pc = s.stack[1],
                   !.stack = SubSeq(s.stack, 2, Len(s.stack))]

\* 0x00EE: self.pc = self.stack.pop()
ReturnFromSubroutine(s) ==
    IF s.stack = <<>>
    THEN [s EXCEPT !.raised = IndexErrorPop]
    ELSE [s EXCEPT !.pc = s.stack[Len(s.stack)],
                   !.stack = SubSeq(s.stack, 1, Len(s.stack) - 1)]

\* ClearDisplay that blanks the top row only
ClearFirstRow(s) ==
    [s EXCEPT !.display = [s.display EXCEPT ![0] = [px \in 0..(DisplayWidth - 1) |-> 0]]]

\* 0x00E0: self.display = [[0] * 64 for _ in range(32)]
ClearDisplay(s) == [s EXCEPT !.display = BlankDisplay]

\* Jump followed by the automatic advance of 2
JumpThenAdvance(s, op) == [s EXCEPT !.pc = Addr(op) + 2]

\* 0x1NNN: self.pc = opcode & 0x0FFF
Jump(s, op) == [s EXCEPT !.pc = Addr(op)]

\* LoadRegister that keeps the low nibble of NN only
LoadRegisterLowNibble(s, op) ==
    [s EXCEPT !.registers = [s.registers EXCEPT ![NibbleX(op)] = NibbleN(op)]]

\* 0x6XNN: self.registers[x] = opcode & 0x00FF
LoadRegister(s, op) ==
    [s EXCEPT !.registers = [s.registers EXCEPT ![NibbleX(op)] = LowByte(op)]]

\* 0xANNN: self.index_register = opcode & 0x0FFF
LoadIndex(s, op) == [s EXCEPT !.index_register = Addr(op)]

\* the opcode words the if/elif chain has a branch for
Recognized(op) ==
    \/ op = \h00E0
    \/ op = \h00EE
    \/ HighNibble(op) \in {1, 6, 10, 13}

\* UnmatchedOpcode with a branch for call addr (2NNN): push PC, jump
UnmatchedWithCall(s, op) ==
    IF HighNibble(op) = 2
    THEN [s EXCEPT !.stack = Append(s.stack, s.pc), !.pc = Addr(op)]
    ELSE s

\* a word no branch matches falls out of the chain: no assignment, no raise
UnmatchedOpcode(s, op) == s

execute_opcode(s, op) ==
    IF op = \h00E0 THEN ClearDisplay(s)
    ELSE IF op = \h00EE THEN ReturnFromSubroutine(s)
    ELSE IF HighNibble(op) = 1 THEN Jump(s, op)
    ELSE IF HighNibble(op) = 6 THEN LoadRegister(s, op)
    ELSE IF HighNibble(op) = 10 THEN LoadIndex(s, op)
    ELSE IF HighNibble(op) = 13 THEN DrawSprite(s, op)
    ELSE UnmatchedOpcode(s, op)

\* update_timers without the > 0 tests
UpdateTimersUnguarded(s) ==
    [s EXCEPT !.delay_timer = @ - 1, !.sound_timer = @ - 1]

\* if self.delay_timer > 0: -= 1; if self.sound_timer > 0: -= 1
update_timers(s) ==
    [s EXCEPT !.delay_timer = IF @ > 0 THEN @ - 1 ELSE @,
              !.sound_timer = IF @ > 0 THEN @ - 1 ELSE @]

\* memory[self.pc] << 8 | memory[self.pc + 1]; a list index past the end raises
FetchRaises(s) == s.pc >= MemSize \/ s.pc + 1 >= MemSize

Fetch(s) == s.memory[s.pc] * 256 + s.memory[s.pc + 1]

emulate_cycle(s) ==
    IF FetchRaises(s)
    THEN [s EXCEPT !.opcode = NoOpcode, !.raised = IndexErrorRead]
    ELSE LET op == Fetch(s)
             s1 == [s EXCEPT !.opcode = op, !.pc = s.pc + 2]
             s2 == execute_opcode(s1, op)
         IN IF s2.raised # NoError THEN s2 ELSE update_timers(s2)

---------------------------------------------------------------------------
(* Chip8Emulator.load_rom *)

\* Installed on a memory that the load clears first
InstalledClearsRest(mem, rom) ==
    [a \in 0..(MemSize - 1) |->
        IF a >= RomBase /\ a - RomBase < Len(rom) THEN rom[a - RomBase + 1] ELSE 0]

\* for i, byte in enumerate(rom_data): self.memory[0x200 + i] = byte
\* the assignment raises at the first index past the end of memory
Installed(mem, rom) ==
    [a \in 0..(MemSize - 1) |->
        IF a >= RomBase /\ a - RomBase < Len(rom) THEN rom[a - RomBase + 1] ELSE mem[a]]

\* LoadRaises with the bound one byte too far
LoadRaisesLate(rom) == RomBase + Len(rom) > MemSize + 1

LoadRaises(rom) == RomBase + Len(rom) > MemSize

---------------------------------------------------------------------------
(* The emulator as a record, and back *)

EmuState ==
    [memory |-> memory, registers |-> registers, index_register |-> index_register,
     pc |-> pc, stack |-> stack, delay_timer |-> delay_timer,
     sound_timer |-> sound_timer, display |-> display, opcode |-> opcode,
     raised |-> raised]

SetEmu(s) ==
    /\ memory' = s.memory
    /\ registers' = s.registers
    /\ index_register' = s.index_register
    /\ pc' = s.pc
    /\ stack' = s.stack
    /\ delay_timer' = s.delay_timer
    /\ sound_timer' = s.sound_timer
    /\ display' = s.display
    /\ opcode' = s.opcode
    /\ raised' = s.raised

---------------------------------------------------------------------------
(* Programs given to load_rom *)

\* the two bytes of each word, high byte first
WordBytes(ws) ==
    [i \in 1..(2 * Len(ws)) |->
        IF i % 2 = 1 THEN ws[(i + 1) \div 2] \div 256 ELSE ws[i \div 2] % 256]

\* a file of `len` bytes: the words, zeros, and `tail` as its last bytes
PaddedRom(ws, tail, len) ==
    [i \in 1..len |->
        IF i <= 2 * Len(ws) THEN WordBytes(ws)[i]
        ELSE IF i > len - Len(tail) THEN tail[i - (len - Len(tail))]
        ELSE 0]

RomWords ==
    { \h00E0,      \* clear the display
      \h00EE,      \* return
      \h1200,      \* jump to the first instruction
      \h1FFF,      \* jump to the last byte of memory
      \h2204,      \* call 0x204
      \h603E,      \* V0 := 62
      \h6F01,      \* VF := 1
      \hA200,      \* I := 0x200
      \hAFFF,      \* I := 0xFFF
      \hD003,      \* draw 3 rows at (V0, V0)
      \hD0F5 }     \* draw 5 rows at (V0, VF)

WordRoms ==
    { WordBytes(ws) : ws \in UNION { [1..n -> RomWords] : n \in 0..MaxRomWords } }

\* files that fill memory to its last byte, and one byte more
LongRoms ==
    { PaddedRom(<<\hAFFE, \hD003>>, <<255, 129>>, MemSize - RomBase),
      PaddedRom(<<\hA200, \hD003>>, <<255>>, MemSize - RomBase + 1) }

Roms == WordRoms \cup LongRoms

---------------------------------------------------------------------------
(* Chip8Emulator: construction, load_rom, emulate_cycle *)

Constructed ==
    /\ memory = [a \in 0..(MemSize - 1) |-> 0]
    /\ registers = [r \in 0..(NumRegisters - 1) |-> 0]
    /\ index_register = 0
    /\ pc = RomBase
    /\ stack = <<>>
    /\ delay_timer = 0
    /\ sound_timer = 0
    /\ display = BlankDisplay
    /\ opcode = NoOpcode
    /\ raised = NoError
    /\ steps = 0
    /\ keys = [k \in 0..(NumRegisters - 1) |-> 0]
    /\ rom_data = <<>>
    /\ loads = 0

\* Chip8EmulatorUI.__init__: the loop thread starts with emulation stopped
UIConstructed ==
    /\ emulation_running = FALSE
    /\ last_cycle_time = now
    /\ loop_current_time = now
    /\ loop_pc = "test"
    /\ ui_pc = "idle"
    /\ seen_running = FALSE
    /\ error_pending = FALSE

CoreConstructed ==
    /\ core_delay_timer = 0
    /\ core_sound_timer = 0
    /\ last_timer_update = now
    /\ calls = 0
    /\ last_call = now
    /\ max_gap = 0

Init ==
    /\ Constructed
    /\ phase = "constructed"
    /\ now = 0
    /\ CoreConstructed
    /\ UIConstructed
    /\ timer_start = 0

\* load_rom(file_path) on a file holding the bytes `rom`
load_rom(rom) ==
    /\ rom_data' = rom
    /\ memory' = Installed(memory, rom)
    /\ raised' = IF LoadRaises(rom) THEN IndexErrorWrite ELSE NoError
    /\ phase' = "loaded"
    /\ loads' = loads + 1
    /\ UNCHANGED <<registers, index_register, pc, stack, delay_timer, sound_timer,
                   display, opcode, steps, keys, coreVars, now, timer_start, uiVars>>

\* __main__: one load_rom after construction, before run()
LoadRom(rom) ==
    /\ phase = "constructed"
    /\ load_rom(rom)

\* run() calls emulate_cycle until an exception leaves it
EmulateCycle ==
    /\ phase = "loaded"
    /\ raised = NoError
    /\ steps < MaxSteps
    /\ SetEmu(emulate_cycle(EmuState))
    /\ steps' = steps + 1
    /\ UNCHANGED <<phase, keys, rom_data, loads, coreVars, now, timer_start, uiVars>>

Next ==
    \/ \E rom \in Roms : LoadRom(rom)
    \/ EmulateCycle

Spec == Init /\ [][Next]_vars

---------------------------------------------------------------------------
(* load_rom called again on an emulator that already holds a program *)

Reload(rom) ==
    /\ phase = "loaded"
    /\ raised = NoError
    /\ loads < MaxLoads
    /\ load_rom(rom)

LoadRoms ==
    { WordBytes(ws) : ws \in UNION { [1..n -> {\h00EE, \h2204}] : n \in 0..MaxUnitWords } }
        \cup LongRoms \cup { <<255>>, <<1, 2, 3>> }

LoadNext ==
    \/ \E rom \in LoadRoms : LoadRom(rom)
    \/ \E rom \in LoadRoms : Reload(rom)

LoadSpec == Init /\ [][LoadNext]_vars

---------------------------------------------------------------------------
(* Chip8Emulator under key events: key_press and key_release *)

\* the key indices the events of a run carry (key_map maps onto 0x0..0xF)
KeysUsed == { 1, 15 }

\* key_press(event) with event.char in key_map
KeyPress(k) ==
    /\ keys[k] = 0
    /\ keys' = [keys EXCEPT ![k] = 1]
    /\ UNCHANGED <<memory, registers, index_register, pc, stack, delay_timer,
                   sound_timer, display, opcode, raised, phase, steps, rom_data,
                   loads, coreVars, now, timer_start, uiVars>>

\* key_release(event) with event.char in key_map
KeyRelease(k) ==
    /\ keys[k] = 1
    /\ keys' = [keys EXCEPT ![k] = 0]
    /\ UNCHANGED <<memory, registers, index_register, pc, stack, delay_timer,
                   sound_timer, display, opcode, raised, phase, steps, rom_data,
                   loads, coreVars, now, timer_start, uiVars>>

KeyWords ==
    { \hF10A,      \* V1 := the next key pressed
      \h6105,      \* V1 := 5
      \h1200 }     \* jump to the first instruction

KeyRoms ==
    { WordBytes(ws) : ws \in UNION { [1..n -> KeyWords] : n \in 0..MaxKeyWords } }

KeyNext ==
    \/ \E rom \in KeyRoms : LoadRom(rom)
    \/ EmulateCycle
    \/ \E k \in KeysUsed : KeyPress(k)
    \/ \E k \in KeysUsed : KeyRelease(k)

KeySpec == Init /\ [][KeyNext]_vars

---------------------------------------------------------------------------
(* The wall clock *)

Tick ==
    /\ now < MaxTime
    /\ now' = now + 1
    /\ UNCHANGED <<emuVars, coreVars, timer_start, uiVars>>

---------------------------------------------------------------------------
(* emulate_cycle on an emulator whose fields a caller has set: a stack of  *)
(* return addresses, timers that are running, a program in memory.         *)

UnitWords == { \h00EE, \h2204 }

UnitRoms ==
    { WordBytes(ws) : ws \in UNION { [1..n -> UnitWords] : n \in 0..MaxUnitWords } }

UnitStacks == UNION { [1..n -> {\h200, \h204}] : n \in 0..MaxStack }

UnitInit ==
    /\ \E rom \in UnitRoms : memory = Installed([a \in 0..(MemSize - 1) |-> 0], rom)
    /\ registers = [r \in 0..(NumRegisters - 1) |-> 0]
    /\ index_register = 0
    /\ pc = RomBase
    /\ stack \in UnitStacks
    /\ delay_timer \in 0..MaxTimer
    /\ sound_timer \in {0, MaxTimer}
    /\ display = BlankDisplay
    /\ opcode = NoOpcode
    /\ raised = NoError
    /\ steps = 0
    /\ keys = [k \in 0..(NumRegisters - 1) |-> 0]
    /\ rom_data = <<>>
    /\ loads = 0
    /\ phase = "loaded"
    /\ now = 0
    /\ CoreConstructed
    /\ UIConstructed
    /\ timer_start = delay_timer

UnitNext ==
    \/ EmulateCycle
    \/ Tick

UnitSpec == UnitInit /\ [][UnitNext]_vars

---------------------------------------------------------------------------
(* Chip8Core._update_timers under the wall clock *)

\* TimerDue with `elapsed > 1/60`
TimerDueStrict(elapsed) == elapsed > TimerPeriod

\* elapsed >= 1/60
TimerDue(elapsed) == elapsed >= TimerPeriod

_update_timers(c, current_time) ==
    IF TimerDue(current_time - c.last_timer_update)
    THEN [delay_timer |-> IF c.delay_timer > 0 THEN c.delay_timer - 1 ELSE c.delay_timer,
          sound_timer |-> IF c.sound_timer > 0 THEN c.sound_timer - 1 ELSE c.sound_timer,
          last_timer_update |-> current_time]
    ELSE c

CoreState ==
    [delay_timer |-> core_delay_timer, sound_timer |-> core_sound_timer,
     last_timer_update |-> last_timer_update]

UpdateTimersCall ==
    /\ calls < MaxCalls
    /\ LET c == _update_timers(CoreState, now)
       IN /\ core_delay_timer' = c.delay_timer
          /\ core_sound_timer' = c.sound_timer
          /\ last_timer_update' = c.last_timer_update
    /\ calls' = calls + 1
    /\ last_call' = now
    /\ max_gap' = IF now - last_call > max_gap THEN now - last_call ELSE max_gap
    /\ UNCHANGED <<emuVars, now, timer_start, uiVars>>

\* Chip8Core() at clock 0, its timers loaded
CoreInit ==
    /\ Constructed
    /\ phase = "constructed"
    /\ now = 0
    /\ core_delay_timer \in 0..MaxTimer
    /\ core_sound_timer \in 0..MaxTimer
    /\ last_timer_update = now
    /\ calls = 0
    /\ last_call = now
    /\ max_gap = 0
    /\ UIConstructed
    /\ timer_start = core_delay_timer

CoreNext ==
    \/ UpdateTimersCall
    \/ Tick

CoreSpec == CoreInit /\ [][CoreNext]_vars

---------------------------------------------------------------------------
(* Chip8EmulatorUI: the emulation thread of _emulation_loop and the Tk     *)
(* main thread, which runs the button commands one at a time.  core.cycle  *)
(* is a call that is entered, takes time, and returns or raises.           *)

emuUnchanged == UNCHANGED <<emuVars, coreVars, now, timer_start>>

\* if self.emulation_running:
LoopTest ==
    /\ loop_pc = "test"
    /\ seen_running' = emulation_running
    /\ loop_pc' = IF emulation_running THEN "elapsed" ELSE "sleep"
    /\ UNCHANGED <<emulation_running, last_cycle_time, loop_current_time, ui_pc,
                   error_pending>>
    /\ emuUnchanged

\* current_time = time.time(); if elapsed >= 1.0 / self.emulation_speed:
\* the try block enters self.core.cycle()
LoopElapsed ==
    /\ loop_pc = "elapsed"
    /\ loop_current_time' = now
    /\ loop_pc' = IF now - last_cycle_time >= CyclePeriod THEN "cycle" ELSE "sleep"
    /\ UNCHANGED <<emulation_running, last_cycle_time, ui_pc, seen_running,
                   error_pending>>
    /\ emuUnchanged

\* core.cycle() returns; self._update_display(); self.last_cycle_time = current_time
LoopCycleReturns ==
    /\ loop_pc = "cycle"
    /\ last_cycle_time' = loop_current_time
    /\ loop_pc' = "sleep"
    /\ UNCHANGED <<emulation_running, loop_current_time, ui_pc, seen_running,
                   error_pending>>
    /\ emuUnchanged

\* core.cycle() raises: control passes to the except clause
LoopCycleRaises ==
    /\ loop_pc = "cycle"
    /\ loop_pc' = "except"
    /\ error_pending' = TRUE
    /\ UNCHANGED <<emulation_running, last_cycle_time, loop_current_time, ui_pc,
                   seen_running>>
    /\ emuUnchanged

\* LoopExcept with `pass` as the handler
LoopExceptKeepsRunning ==
    /\ loop_pc = "except"
    /\ loop_pc' = "sleep"
    /\ UNCHANGED <<emulation_running, last_cycle_time, loop_current_time, ui_pc,
                   seen_running, error_pending>>
    /\ emuUnchanged

\* except Exception as e: self.emulation_running = False
LoopExcept ==
    /\ loop_pc = "except"
    /\ emulation_running' = FALSE
    /\ loop_pc' = "sleep"
    /\ UNCHANGED <<last_cycle_time, loop_current_time, ui_pc, seen_running,
                   error_pending>>
    /\ emuUnchanged

\* time.sleep(0.001), then the next iteration of while True
LoopSleep ==
    /\ loop_pc = "sleep"
    /\ loop_pc' = "test"
    /\ UNCHANGED <<emulation_running, last_cycle_time, loop_current_time, ui_pc,
                   seen_running, error_pending>>
    /\ emuUnchanged

\* the Step button's command enters self.core.cycle() on the main thread
StepButton ==
    /\ ui_pc = "idle"
    /\ ui_pc' = "cycle"
    /\ UNCHANGED <<emulation_running, last_cycle_time, loop_current_time, loop_pc,
                   seen_running, error_pending>>
    /\ emuUnchanged

\* that call ends (returning into _update_display, or raising into Tk)
StepButtonDone ==
    /\ ui_pc = "cycle"
    /\ ui_pc' = "idle"
    /\ UNCHANGED <<emulation_running, last_cycle_time, loop_current_time, loop_pc,
                   seen_running, error_pending>>
    /\ emuUnchanged

\* the Start button's command, start_emulation
StartEmulation ==
    /\ ui_pc = "idle"
    /\ emulation_running' = TRUE
    /\ error_pending' = FALSE
    /\ UNCHANGED <<last_cycle_time, loop_current_time, loop_pc, ui_pc, seen_running>>
    /\ emuUnchanged

\* the Stop button's command, stop_emulation
StopEmulation ==
    /\ ui_pc = "idle"
    /\ emulation_running' = FALSE
    /\ UNCHANGED <<last_cycle_time, loop_current_time, loop_pc, ui_pc, seen_running,
                   error_pending>>
    /\ emuUnchanged

UINext ==
    \/ LoopTest
    \/ LoopElapsed
    \/ LoopCycleReturns
    \/ LoopCycleRaises
    \/ LoopExcept
    \/ LoopSleep
    \/ StepButton
    \/ StepButtonDone
    \/ StartEmulation
    \/ StopEmulation
    \/ Tick

UISpec == Init /\ [][UINext]_vars

---------------------------------------------------------------------------
(* Properties *)

\* the step just taken was an emulate_cycle call
CycleStep == steps' = steps + 1

\* C1: every memory access of a step wraps modulo 4096 and never fails: no
\* emulate_cycle call ends in an index error from the opcode fetch or from a
\* sprite-row read.
C1_AddressingNeverRaises == steps > 0 => raised # IndexErrorRead

\* C2: a step that raises leaves the framebuffer, the registers, I, the
\* stack and memory exactly as they were before the call.
C2_NoPartialState ==
    [][(CycleStep /\ raised' # NoError) =>
          /\ display' = display
          /\ registers' = registers
          /\ index_register' = index_register
          /\ stack' = stack
          /\ memory' = memory]_vars

\* C3: the delay timer of Chip8Emulator decrements at most 60*T times in T
\* seconds (TimerPeriod clock units are 1/60 s), whatever the number of
\* emulate_cycle calls.
C3_TimerBoundedByClock == (timer_start - delay_timer) * TimerPeriod <= now

\* C4: while the delay timer of Chip8Core stays non-zero and consecutive
\* _update_timers calls are at most 1/60 s apart, the number of decrements
\* after elapsed time T differs from 60*T by at most 1 (read as each call
\* returns, when the timer is up to date).
C4_TimerTracksClock ==
    (/\ calls > 0
     /\ now = last_call
     /\ max_gap <= TimerPeriod
     /\ core_delay_timer > 0)
    => LET drift == (timer_start - core_delay_timer) * TimerPeriod - now
       IN drift <= TimerPeriod /\ 0 - drift <= TimerPeriod

\* C5: an _update_timers call made at least 1/60 s after last_timer_update
\* decreases each non-zero timer by exactly one, keeps a zero timer at zero
\* and sets last_timer_update to the current time; a call made earlier
\* changes none of the three.
C5_TimerTick ==
    [][(calls' = calls + 1) =>
          IF now - last_timer_update >= TimerPeriod
          THEN /\ core_delay_timer > 0 => core_delay_timer' = core_delay_timer - 1
               /\ core_delay_timer = 0 => core_delay_timer' = 0
               /\ core_sound_timer > 0 => core_sound_timer' = core_sound_timer - 1
               /\ core_sound_timer = 0 => core_sound_timer' = 0
               /\ last_timer_update' = now
          ELSE /\ core_delay_timer' = core_delay_timer
               /\ core_sound_timer' = core_sound_timer
               /\ last_timer_update' = last_timer_update]_vars

C5_Witness ==
    /\ calls >= 2
    /\ now >= TimerPeriod
    /\ last_timer_update = now
    /\ core_delay_timer + 1 = timer_start
    /\ core_sound_timer = 0

\* the sprite bit that draw Vx,Vy,n applies to pixel (px, py), read from the
\* n bytes at I: bit col of byte row lands on ((x+col) mod 64, (y+row) mod 32)
SpriteAt(mem, I, n, x, y, py, px) ==
    LET row == (py + 256 - y) % DisplayHeight
        col == (px + 256 - x) % DisplayWidth
    IN IF row < n /\ col < SpriteWidth THEN SpriteBit(mem[I + row], col) ELSE 0

\* a step that executed draw Vx,Vy,n without raising
DrawStep == CycleStep /\ HighNibble(opcode') = 13 /\ raised' = NoError

\* C6: a step executing draw Vx,Vy,n with I+n-1 <= 0xFFF leaves the
\* framebuffer equal to the old framebuffer XOR the sprite placed at (Vx, Vy)
\* with toroidal wraparound, and VF = 1 if and only if some pixel that was 1
\* before the draw is 0 after it, whatever VF held before.
C6_DrawSemantics ==
    [][(/\ CycleStep
        /\ HighNibble(opcode') = 13
        /\ index_register + NibbleN(opcode') - 1 <= MemSize - 1) =>
          LET x == registers[NibbleX(opcode')]
              y == registers[NibbleY(opcode')]
              n == NibbleN(opcode')
              erased == \E py \in 0..(DisplayHeight - 1), px \in 0..(DisplayWidth - 1) :
                            display[py][px] = 1 /\ display'[py][px] = 0
          IN /\ raised' = NoError
             /\ display' = [py \in 0..(DisplayHeight - 1) |->
                               [px \in 0..(DisplayWidth - 1) |->
                                   (display[py][px]
                                      + SpriteAt(memory, index_register, n, x, y, py, px)) % 2]]
             /\ registers'[15] = IF erased THEN 1 ELSE 0]_vars

\* a sprite drawn at (62, 62) has wrapped to column 0 and to row 0
C6_Witness ==
    /\ opcode = \hD003
    /\ raised = NoError
    /\ registers[0] = 62
    /\ display[30][0] = 1
    /\ display[0][62] = 1
    /\ display[30][63] = 1

\* C7: executing the same draw twice in a row with I, memory, Vx and Vy
\* unchanged restores the framebuffer to its state before the first draw,
\* and when the sprite has a set bit and the pixels under its set bits were
\* all 0 before the first draw, VF = 1 after the second draw.
C7_DrawTwice ==
    [][(/\ DrawStep
        /\ registers'[NibbleX(opcode')] = registers[NibbleX(opcode')]
        /\ registers'[NibbleY(opcode')] = registers[NibbleY(opcode')]) =>
          LET x == registers[NibbleX(opcode')]
              y == registers[NibbleY(opcode')]
              n == NibbleN(opcode')
              lit == { <<py, px>> \in (0..(DisplayHeight - 1)) \X (0..(DisplayWidth - 1)) :
                          SpriteAt(memory, index_register, n, x, y, py, px) = 1 }
              second == execute_opcode(EmuState', opcode')
          IN /\ second.raised = NoError
             /\ second.display = display
             /\ (lit # {} /\ \A p \in lit : display[p[1]][p[2]] = 0)
                   => second.registers[15] = 1]_vars

\* the program A200 D003 D003 after its third step: the second draw left
\* VF = 1 and the framebuffer blank again
C7_Witness ==
    /\ steps = 3
    /\ pc = RomBase + 6
    /\ opcode = \hD003
    /\ index_register = RomBase
    /\ raised = NoError
    /\ registers[15] = 1
    /\ display = BlankDisplay

\* C8: a step that fetches a word matching no implemented opcode fails with
\* an error, with PC advanced by 2 past the word and no other state changed.
C8_UnknownOpcodeRaises ==
    [][(CycleStep /\ opcode' # NoOpcode /\ ~Recognized(opcode')) =>
          /\ raised' # NoError
          /\ pc' = pc + 2
          /\ UNCHANGED <<memory, registers, index_register, stack, delay_timer,
                         sound_timer, display>>]_vars

\* C9: a step executing call addr (2NNN) at address A sets PC to addr and
\* pushes the return address A+2, and a step executing return (00EE) sets PC
\* to the pushed address and leaves the stack as it was before the call.
C9_CallReturn ==
    [][/\ (CycleStep /\ HighNibble(opcode') = 2) =>
             (pc' = Addr(opcode') /\ stack' = Append(stack, pc + 2))
       /\ (CycleStep /\ opcode' = \h00EE /\ stack # <<>>) =>
             (stack = Append(stack', pc'))]_vars

\* C10: return on an empty stack fails with an error reported to the caller
\* of the step and the stack stays empty; return on a non-empty stack sets
\* PC to the most recently pushed address and removes exactly that entry.
C10_Return ==
    [][(CycleStep /\ opcode' = \h00EE) =>
          IF stack = <<>>
          THEN raised' = IndexErrorPop /\ stack' = <<>>
          ELSE raised' = NoError /\ stack = Append(stack', pc')]_vars

\* a return that popped the only entry, 0x200, then a return on the stack
\* it emptied
C10_Witness ==
    /\ steps = 2
    /\ pc = \h202
    /\ opcode = \h00EE
    /\ stack = <<>>
    /\ raised = IndexErrorPop

\* the last word a step fetched is the blocking key opcode FX0A
KeyWaitFetched == HighNibble(opcode) = 15 /\ LowByte(opcode) = 10

\* C11: after a step executed FX0A, a step made while no key is pressed
\* leaves PC unchanged and decodes no instruction, and a step made while a
\* key k is pressed writes k into VX.
C11_KeyWait ==
    [][(CycleStep /\ KeyWaitFetched) =>
          IF \A k \in DOMAIN keys : keys[k] = 0
          THEN pc' = pc /\ opcode' = opcode
          ELSE \E k \in DOMAIN keys :
                  keys[k] = 1 /\ registers'[NibbleX(opcode)] = k]_vars

\* C12: in every interleaving of the emulation thread and the UI thread,
\* at most one invocation of core.cycle() is in progress at any time.
C12_StepsNeverOverlap == ~(loop_pc = "cycle" /\ ui_pc = "cycle")

\* the emulation thread enters core.cycle()
LoopInvokes == loop_pc # "cycle" /\ loop_pc' = "cycle"

LoadStep == loads' = loads + 1

\* C13: after load_rom of n <= 3584 bytes b, memory[0x200+i] = b[i] for all
\* i < n, and every address outside [0x200, 0x200+n) holds the value it had
\* before the load.
C13_LoadInstalls ==
    [][(LoadStep /\ Len(rom_data') <= MemSize - RomBase) =>
          /\ \A i \in 0..(Len(rom_data') - 1) :
                memory'[RomBase + i] = rom_data'[i + 1]
          /\ \A a \in 0..(MemSize - 1) :
                (a < RomBase \/ a >= RomBase + Len(rom_data')) => memory'[a] = memory[a]]_vars

\* a second, shorter load left the third byte of the first program in place
C13_Witness ==
    /\ loads = 2
    /\ raised = NoError
    /\ Len(rom_data) = 2
    /\ memory[RomBase + 2] = 3

\* C14: load_rom of more than 3584 bytes fails with an error reported to the
\* caller, and memory receives no write at an address >= 4096.
C14_LoadOversize ==
    [][(LoadStep /\ Len(rom_data') > MemSize - RomBase) =>
          /\ raised' = IndexErrorWrite
          /\ DOMAIN memory' = 0..(MemSize - 1)]_vars

\* the 3585-byte file: its first bytes were installed before the raise
C14_Witness ==
    /\ Len(rom_data) = MemSize - RomBase + 1
    /\ raised = IndexErrorWrite
    /\ memory[RomBase] = 162

\* C15: after a step that executes jump NNN (1NNN) PC equals NNN, with no
\* increment of 2 on top, and registers, I, stack, memory and framebuffer are
\* unchanged.
C15_JumpSetsPc ==
    [][(CycleStep /\ HighNibble(opcode') = 1) =>
          /\ pc' = Addr(opcode')
          /\ raised' = NoError
          /\ UNCHANGED <<registers, index_register, stack, memory, display>>]_vars

\* the program A200 D003 1FFF after its third step: PC is 0xFFF and the
\* sprite drawn before the jump is still on the framebuffer
C15_Witness ==
    /\ steps = 3
    /\ opcode = \h1FFF
    /\ pc = \hFFF
    /\ index_register = RomBase
    /\ display # BlankDisplay

\* C16: after a step that executes the clear opcode (00E0) every one of the
\* 32x64 framebuffer pixels is 0, whatever the framebuffer held before.
C16_ClearDisplay ==
    [][(CycleStep /\ opcode' = \h00E0) =>
          \A py \in 0..(DisplayHeight - 1), px \in 0..(DisplayWidth - 1) :
              display'[py][px] = 0]_vars

\* the program A200 D003 00E0 after its third step: the sprite that the
\* second step drew on rows 0..2 has been cleared
C16_Witness ==
    /\ steps = 3
    /\ opcode = \h00E0
    /\ index_register = RomBase
    /\ memory[RomBase + 2] = \hD0
    /\ memory[RomBase + 3] = 3
    /\ display = BlankDisplay

\* C17: a step whose opcode word is neither 00E0 nor DXYN leaves every
\* framebuffer pixel unchanged; a step executing load VX,NN (6XNN) sets
\* VX = NN and PC = old PC + 2 and leaves every other register, I, the stack,
\* memory and the framebuffer unchanged.
C17_FramebufferFrame ==
    [][/\ (CycleStep /\ opcode' # \h00E0 /\ HighNibble(opcode') # 13) =>
              display' = display
       /\ (CycleStep /\ HighNibble(opcode') = 6) =>
              /\ registers'[NibbleX(opcode')] = LowByte(opcode')
              /\ \A r \in 0..(NumRegisters - 1) :
                    r # NibbleX(opcode') => registers'[r] = registers[r]
              /\ pc' = pc + 2
              /\ UNCHANGED <<index_register, stack, memory, display>>]_vars

\* the program A200 D003 603E after its third step: V0 = 0x3E and the sprite
\* drawn by the second step is untouched
C17_Witness ==
    /\ steps = 3
    /\ opcode = \h603E
    /\ registers[0] = 62
    /\ pc = RomBase + 6
    /\ display # BlankDisplay

\* C19: the call stack is empty in every reachable state of Chip8Emulator, so
\* its depth never exceeds 16, and every execution of the return opcode
\* (00EE) raises.
C19_StackAlwaysEmpty ==
    /\ stack = <<>>
    /\ Len(stack) <= 16
    /\ (steps > 0 /\ opcode = \h00EE) => raised = IndexErrorPop

\* the program 2204 00EE after its second step: the call word pushed
\* nothing and the return raised on the empty stack
C19_Witness ==
    /\ steps = 2
    /\ memory[RomBase] = \h22
    /\ memory[RomBase + 1] = 4
    /\ opcode = \h00EE
    /\ pc = RomBase + 4
    /\ raised = IndexErrorPop

\* C20: after construction, a load and any sequence of emulate_cycle calls,
\* every register is in 0..255, I is in 0..0xFFF, every framebuffer pixel is
\* 0 or 1, and delay_timer and sound_timer are in 0..255.
C20_ValueRanges ==
    /\ \A r \in 0..(NumRegisters - 1) : registers[r] \in 0..255
    /\ index_register \in 0..(MemSize - 1)
    /\ \A py \in 0..(DisplayHeight - 1), px \in 0..(DisplayWidth - 1) :
          display[py][px] \in {0, 1}
    /\ delay_timer \in 0..255
    /\ sound_timer \in 0..255

\* three steps over the words 6F01, AFFF and 603E: VF = 1, I = 0xFFF and
\* V0 = 0x3E, each at the value its opcode wrote
C20_Witness ==
    /\ steps = 3
    /\ raised = NoError
    /\ registers[15] = 1
    /\ registers[0] = 62
    /\ index_register = \hFFF

=============================================================================
